---- MODULE Spec2Model ----
(***************************************************************************)
(* Model of the ctfd package (src/unnamed/part_000): New, Start, Stop,     *)
(* Close, configureInstance, createFlag, getNonce and waitForServer.       *)
(* The docker container runtime, the filesystem and the HTTP server are    *)
(* the environment: every call into them draws its outcome with \E.        *)
(* SessionSpec is one New call against a server that uses cookies; the     *)
(* cookie jar behaves as net/http/cookiejar does.                           *)
(* CliSpec models the event commands of src/app/client/cli/event.go.       *)
(***************************************************************************)
EXTENDS Integers, Sequences, FiniteSets, TLC

\* ---- bounds of the model ----
MaxFlags == 2
MaxProbeDelay == 1
MaxPriorJars == 1
MaxMsgs == 3
MaxSetCookies == 2

\* ---- program constants ----
\* context.WithTimeout(..., time.Minute), in seconds
Deadline == 60
\* time.Sleep(time.Second), in seconds
Backoff == 1
\* the only status code poll() accepts
StatusOK == 200
\* make(chan error, 1)
ErrcCap == 1

\* ---- error values ----
Nil == "nil"
Pending == "pending"
ServerUnavailableErr == "Server is unavailable"
ErrNonce == "Unable to find nonce in page"
ErrStatus == "Unxpected status code"
ErrNet == "net.Error"
ErrRead == "body read error"
ErrHostIP == "docker host ip error"
ErrTempDir == "tempdir error"
ErrCreate == "container create error"
ErrStart == "container start error"
ErrStop == "container stop error"
ErrClose == "container close error"
ErrRemove == "removeall error"

\* ---- environment alphabets ----
\* HTTP status codes the server answers with
Statuses == {200, 204, 500}
\* outcome of one http round trip: 0 is a transport-level failure
NetFail == 0
HttpOutcomes == {NetFail} \cup Statuses
\* outcomes of a form POST: transport failure, accepted, rejected
PostOutcomes == {NetFail, 200, 500}

SetupURL == "http://localhost:8000/setup"
ChalURL == "http://localhost:8000/admin/chal/new"
TempDirPath == "/tmp/ctfd"
HostAddr == "172.17.0.1"

\* exercise.FlagConfig values the configuration is drawn from
FlagDefs ==
  { [name |-> "A", default |-> "flag{a}", points |-> 100],
    [name |-> "B", default |-> "flag{b}", points |-> 200] }
NoFlag == [name |-> "", default |-> "", points |-> 0]

SeqsUpTo(S, n) == UNION { [1..k -> S] : k \in 0..n }
\* Config values New is called with (only Flags drives control flow)
Configs == { [flags |-> f] : f \in SeqsUpTo(FlagDefs, MaxFlags) }
\* the Config values whose flags are copies of one definition
UniformConfigs == { c \in Configs : \A i \in 1..Len(c.flags) : c.flags[i] = c.flags[1] }

Min(a, b) == IF a < b THEN a ELSE b

\* the cookies the server may use, as the jar keys them: by name and path
\* (the host is the same throughout)
CookieKeys ==
  { [name |-> "session", path |-> "/"],
    [name |-> "prefs", path |-> "/admin"] }
\* a jar that holds no cookie: 0 stands for no cookie under the key
NoCookies == [k \in CookieKeys |-> 0]
\* a reply carries no Set-Cookie header for a key
Keep == 0
\* a reply carries a Set-Cookie header for a key that has expired (Max-Age<=0)
Expire == -1
\* path-match of a cookie against the URL of a request
PathMatch(k, u) == k.path = "/" \/ (k.path = "/admin" /\ u = ChalURL)

\* cookie stores of the instances earlier New calls made, each holding the
\* session cookie its own server issued
PriorCookie(i) == 1000 + i
PriorJars(n) ==
  [i \in 1..n |-> [k \in CookieKeys |-> IF k.path = "/" THEN PriorCookie(i) ELSE 0]]

\* ---- container configuration ----
NoConf == [image |-> "", mounts |-> <<>>, env |-> <<>>, bridge |-> FALSE, ports |-> <<>>]

BaseConf_NoMount(dir, ip) ==
  [ image |-> "registry.sec-aau.dk/aau/ctfd",
    mounts |-> <<>>,
    env |-> << <<"ADMIN_HOST", ip>> >>,
    bridge |-> TRUE,
    ports |-> <<>> ]

\* baseConf of New
BaseConf(dir, ip) ==
  [ image |-> "registry.sec-aau.dk/aau/ctfd",
    mounts |-> << <<dir, "/opt/CTFd/CTFd/data">> >>,
    env |-> << <<"ADMIN_HOST", ip>> >>,
    bridge |-> TRUE,
    ports |-> <<>> ]

\* initConf := *baseConf; initConf.PortBindings = {"8000/tcp": "127.0.0.1:8000"}
InitConf(base) == [base EXCEPT !.ports = << <<"8000/tcp", "127.0.0.1:8000">> >>]

FinalConf_FromInit(base) == [base EXCEPT !.ports = << <<"8000/tcp", "127.0.0.1:8000">> >>]

\* finalConf := *baseConf
FinalConf(base) == base

NoCont == [status |-> "none", conf |-> NoConf]

\* ---- container runtime (docker package, outside src/) ----
\* docker.NewContainer: the handle of a created, not yet started container
DockerNewContainer(c) == [status |-> "created", conf |-> c]
\* handle.Start succeeding
DockerStart(c) == [c EXCEPT !.status = "running"]
\* handle.Stop succeeding
DockerStop(c) == [c EXCEPT !.status = IF c.status = "running" THEN "stopped" ELSE c.status]
\* handle.Close succeeding: stopped and released
DockerClose(c) == [c EXCEPT !.status = "closed"]
\* a released handle accepts no further operation
DockerUsable(c) == c.status \in {"created", "running", "stopped"}
Alive(c) == c.status = "running"

VARIABLES
  pc,         \* position of the caller: inside New, idle with an instance, inside Close, or failed
  lastOp,     \* the exported operation most recently entered
  ret,        \* what New returned: [inst, err]
  opRet,      \* what the last Start/Stop/Close returned
  conf,       \* ctf.conf
  hostIp,     \* hostIp local of New
  confDir,    \* ctf.confDir
  dirExists,  \* whether the directory confDir names exists on disk
  setupC,     \* the container created from initConf
  servC,      \* the container created from finalConf
  cont,       \* ctf.cont: which container the instance holds
  reqs,       \* requests issued through ctf.httpclient, in order
  nonce,      \* nonce local of configureInstance / createFlag
  content,    \* content local of getNonce, as the matches of NONCEREGEXP in it; empty once getNonce is left
  flagIdx,    \* index of the flag the loop of configureInstance is at
  jars,       \* the cookie stores that exist: the value each holds per cookie key, 0 for none
  ctfJar,     \* ctf.httpclient.Jar: index in jars, 0 before New made it
  srvKeys,    \* the cookie keys the server of this instance uses in its Set-Cookie headers
  wfsRet,     \* value waitForServer returned
  gpc,        \* position of the polling goroutine
  errc,       \* contents of the buffered channel errc
  elapsed,    \* seconds since the context of waitForServer was created
  probes,     \* poll() calls of the running waitForServer
  backoffs,   \* time.Sleep calls of the running waitForServer
  nerrs,      \* poll() calls that ended in a net.Error
  lastProbe,  \* outcome of the latest poll(): -1 none, 0 transport failure, else status
  cliCmd,     \* the event command the client runs: create, stop or restart
  cliPc,      \* position of the command's Run function
  cliStream,  \* the RPC stream of the command: none, open or failed
  cliLog,     \* what stream.Recv has returned so far, in order
  cliOut      \* the messages PrintError has printed, in order

pollVars == <<gpc, errc, elapsed, probes, backoffs, nerrs, lastProbe>>
contVars == <<setupC, servC, cont>>
fsVars == <<hostIp, confDir, dirExists>>
httpVars == <<reqs, nonce, content, flagIdx>>
jarVars == <<jars, ctfJar>>
inputVars == <<conf, srvKeys>>
cliVars == <<cliCmd, cliPc, cliStream, cliLog, cliOut>>
ctfdVars == <<pc, lastOp, ret, opRet, inputVars, wfsRet, pollVars, contVars, fsVars, httpVars, jarVars>>
vars == <<ctfdVars, cliVars>>

NoRet == [inst |-> FALSE, err |-> Pending]
Fail_WithInst(e) == [inst |-> TRUE, err |-> e]

\* return nil, err
Fail(e) == [inst |-> FALSE, err |-> e]

\* the state New is called in, with a Config of C and a server that uses the
\* cookie keys K
InitWith(C, K) ==
  /\ pc = "hostip"
  /\ lastOp = "New"
  /\ ret = NoRet
  /\ opRet = Pending
  /\ conf \in C
  /\ hostIp = ""
  /\ confDir = ""
  /\ dirExists = FALSE
  /\ setupC = NoCont
  /\ servC = NoCont
  /\ cont = "nil"
  /\ reqs = <<>>
  /\ nonce = 0
  /\ content = <<>>
  /\ flagIdx = 0
  /\ \E n \in {0, MaxPriorJars} : jars = PriorJars(n)
  /\ ctfJar = 0
  /\ srvKeys = K
  /\ wfsRet = Pending
  /\ gpc = "idle"
  /\ errc = <<>>
  /\ elapsed = 0
  /\ probes = 0
  /\ backoffs = 0
  /\ nerrs = 0
  /\ lastProbe = -1
  /\ cliCmd = "none"
  /\ cliPc = "idle"
  /\ cliStream = "none"
  /\ cliLog = <<>>
  /\ cliOut = <<>>

\* New is called; the server sets no cookie
Init == InitWith(Configs, {})

\* ---------------------------------------------------------------------
\* New, lines 56-128
\* ---------------------------------------------------------------------

NewHostIP_SharedJar ==
  /\ pc = "hostip"
  /\ \E ok \in BOOLEAN :
       IF ok
       THEN /\ hostIp' = HostAddr
            /\ pc' = "tempdir"
            /\ ret' = ret
       ELSE /\ hostIp' = hostIp
            /\ pc' = "failed"
            /\ ret' = Fail(ErrHostIP)
  /\ jars' = IF jars = <<>> THEN <<NoCookies>> ELSE jars
  /\ ctfJar' = 1
  /\ UNCHANGED <<lastOp, opRet, inputVars, cliVars, wfsRet, pollVars, contVars, confDir, dirExists, httpVars>>

\* lines 57-74: cookiejar.New, the client and the ctf value, docker.GetDockerHostIP
NewHostIP ==
  /\ pc = "hostip"
  /\ \E ok \in BOOLEAN :
       IF ok
       THEN /\ hostIp' = HostAddr
            /\ pc' = "tempdir"
            /\ ret' = ret
       ELSE /\ hostIp' = hostIp
            /\ pc' = "failed"
            /\ ret' = Fail(ErrHostIP)
  /\ jars' = Append(jars, NoCookies)
  /\ ctfJar' = Len(jars) + 1
  /\ UNCHANGED <<lastOp, opRet, inputVars, cliVars, wfsRet, pollVars, contVars, confDir, dirExists, httpVars>>

\* lines 76-81: ioutil.TempDir and ctf.confDir
NewTempDir ==
  /\ pc = "tempdir"
  /\ \E ok \in BOOLEAN :
       IF ok
       THEN /\ confDir' = TempDirPath
            /\ dirExists' = TRUE
            /\ pc' = "setup_create"
            /\ ret' = ret
       ELSE /\ UNCHANGED <<confDir, dirExists>>
            /\ pc' = "failed"
            /\ ret' = Fail(ErrTempDir)
  /\ UNCHANGED <<lastOp, opRet, inputVars, cliVars, jarVars, wfsRet, pollVars, contVars, hostIp, httpVars>>

\* lines 83-102: baseConf, initConf, docker.NewContainer(initConf)
NewSetupCreate ==
  /\ pc = "setup_create"
  /\ \E ok \in BOOLEAN :
       IF ok
       THEN /\ setupC' = DockerNewContainer(InitConf(BaseConf(confDir, hostIp)))
            /\ pc' = "setup_start"
            /\ ret' = ret
       ELSE /\ setupC' = setupC
            /\ pc' = "failed"
            /\ ret' = Fail(ErrCreate)
  /\ UNCHANGED <<lastOp, opRet, inputVars, cliVars, jarVars, wfsRet, pollVars, servC, cont, fsVars, httpVars>>

NewSetupStart_IgnoreErr ==
  /\ pc = "setup_start"
  /\ \E ok \in BOOLEAN :
       /\ setupC' = IF ok THEN DockerStart(setupC) ELSE setupC
       /\ pc' = "wfs_start"
       /\ ret' = ret
  /\ UNCHANGED <<lastOp, opRet, inputVars, cliVars, jarVars, wfsRet, pollVars, servC, cont, fsVars, httpVars>>

\* lines 104-107: c.Start()
NewSetupStart ==
  /\ pc = "setup_start"
  /\ \E ok \in BOOLEAN :
       IF ok
       THEN /\ setupC' = DockerStart(setupC)
            /\ pc' = "wfs_start"
            /\ ret' = ret
       ELSE /\ setupC' = setupC
            /\ pc' = "failed"
            /\ ret' = Fail(ErrStart)
  /\ UNCHANGED <<lastOp, opRet, inputVars, cliVars, jarVars, wfsRet, pollVars, servC, cont, fsVars, httpVars>>

\* ---------------------------------------------------------------------
\* waitForServer, lines 278-318
\* ---------------------------------------------------------------------

\* the poll closure, lines 283-295: the error it returns for one round trip
poll(o) ==
  IF o = NetFail THEN ErrNet
  ELSE IF o # StatusOK THEN ErrStatus
  ELSE Nil

IsNetError_AnyErr(e) == e # Nil

\* the type switch of lines 305-306: http.Get fails with a *url.Error,
\* which is a net.Error; fmt.Errorf values and nil are not
IsNetError(e) == e = ErrNet

CtxDone_Early(t) == t >= Deadline - 1

\* <-ctx.Done() is ready, line 300
CtxDone(t) == t >= Deadline

\* lines 279-297 and the go statement: context, channel, goroutine
WfsStart ==
  /\ pc = "wfs_start"
  /\ pc' = "wfs_recv"
  /\ gpc' = "select"
  /\ errc' = <<>>
  /\ elapsed' = 0
  /\ probes' = 0
  /\ backoffs' = 0
  /\ nerrs' = 0
  /\ lastProbe' = -1
  /\ UNCHANGED <<lastOp, ret, opRet, inputVars, cliVars, jarVars, wfsRet, contVars, fsVars, httpVars>>

PollDeadline_NoSend ==
  /\ gpc = "select"
  /\ CtxDone(elapsed)
  /\ errc' = errc
  /\ gpc' = "done"
  /\ UNCHANGED <<pc, lastOp, ret, opRet, inputVars, cliVars, jarVars, wfsRet, elapsed, probes, backoffs, nerrs,
                 lastProbe, contVars, fsVars, httpVars>>

\* lines 300-302: the deadline has passed at the top of the loop
PollDeadline ==
  /\ gpc = "select"
  /\ CtxDone(elapsed)
  /\ errc' = Append(errc, ServerUnavailableErr)
  /\ gpc' = "done"
  /\ UNCHANGED <<pc, lastOp, ret, opRet, inputVars, cliVars, jarVars, wfsRet, elapsed, probes, backoffs, nerrs,
                 lastProbe, contVars, fsVars, httpVars>>

PollProbe_NoReturn ==
  /\ gpc = "select"
  /\ ~CtxDone(elapsed)
  /\ \E o \in HttpOutcomes, d \in 0..MaxProbeDelay :
       /\ probes' = probes + 1
       /\ lastProbe' = o
       /\ elapsed' = Min(Deadline, elapsed + d)
       /\ IF IsNetError(poll(o))
          THEN /\ nerrs' = nerrs + 1
               /\ gpc' = "sleep"
               /\ errc' = errc
          ELSE /\ nerrs' = nerrs
               /\ gpc' = "select"
               /\ errc' = Append(errc, poll(o))
  /\ UNCHANGED <<pc, lastOp, ret, opRet, inputVars, cliVars, jarVars, wfsRet, backoffs, contVars, fsVars, httpVars>>

PollProbe_NoBackoff ==
  /\ gpc = "select"
  /\ ~CtxDone(elapsed)
  /\ \E o \in HttpOutcomes, d \in 0..MaxProbeDelay :
       /\ probes' = probes + 1
       /\ lastProbe' = o
       /\ elapsed' = Min(Deadline, elapsed + d + 1)
       /\ IF IsNetError(poll(o))
          THEN /\ nerrs' = nerrs + 1
               /\ gpc' = "select"
               /\ errc' = errc
          ELSE /\ nerrs' = nerrs
               /\ gpc' = "done"
               /\ errc' = Append(errc, poll(o))
  /\ UNCHANGED <<pc, lastOp, ret, opRet, inputVars, cliVars, jarVars, wfsRet, backoffs, contVars, fsVars, httpVars>>

\* lines 303-312: one poll() taking d seconds, then the type switch
PollProbe ==
  /\ gpc = "select"
  /\ ~CtxDone(elapsed)
  /\ \E o \in HttpOutcomes, d \in 0..MaxProbeDelay :
       /\ probes' = probes + 1
       /\ lastProbe' = o
       /\ elapsed' = Min(Deadline, elapsed + d)
       /\ IF IsNetError(poll(o))
          THEN /\ nerrs' = nerrs + 1
               /\ gpc' = "sleep"
               /\ errc' = errc
          ELSE /\ nerrs' = nerrs
               /\ gpc' = "done"
               /\ errc' = Append(errc, poll(o))
  /\ UNCHANGED <<pc, lastOp, ret, opRet, inputVars, cliVars, jarVars, wfsRet, backoffs, contVars, fsVars, httpVars>>

\* lines 307-308: time.Sleep(time.Second); continue
PollSleep ==
  /\ gpc = "sleep"
  /\ elapsed' = Min(Deadline, elapsed + Backoff)
  /\ backoffs' = backoffs + 1
  /\ gpc' = "select"
  /\ UNCHANGED <<pc, lastOp, ret, opRet, inputVars, cliVars, jarVars, wfsRet, errc, probes, nerrs, lastProbe,
                 contVars, fsVars, httpVars>>

WfsRecv_IgnoreErr ==
  /\ pc = "wfs_recv"
  /\ errc # <<>>
  /\ wfsRet' = Head(errc)
  /\ errc' = Tail(errc)
  /\ gpc' = "idle"
  /\ elapsed' = 0
  /\ probes' = 0
  /\ backoffs' = 0
  /\ nerrs' = 0
  /\ lastProbe' = -1
  /\ pc' = "setup_nonce"
  /\ ret' = ret
  /\ UNCHANGED <<lastOp, opRet, inputVars, cliVars, jarVars, contVars, fsVars, httpVars>>

\* line 317 and lines 234-236: return <-errc; the frame of waitForServer
\* (context, channel, goroutine) is gone afterwards
WfsRecv ==
  /\ pc = "wfs_recv"
  /\ errc # <<>>
  /\ wfsRet' = Head(errc)
  /\ errc' = Tail(errc)
  /\ gpc' = "idle"
  /\ elapsed' = 0
  /\ probes' = 0
  /\ backoffs' = 0
  /\ nerrs' = 0
  /\ lastProbe' = -1
  /\ IF Head(errc) = Nil
     THEN pc' = "setup_nonce" /\ ret' = ret
     ELSE pc' = "failed" /\ ret' = Fail(Head(errc))
  /\ UNCHANGED <<lastOp, opRet, inputVars, cliVars, jarVars, contVars, fsVars, httpVars>>

\* ---------------------------------------------------------------------
\* getNonce, lines 165-183
\* ---------------------------------------------------------------------

\* what the server can answer to the t-th request when it is a GET: a
\* transport failure, a body that cannot be read, or a page given as the
\* sequence of tokens the pattern NONCEREGEXP matches in it
GetReplies(t) ==
  { [terr |-> ErrNet, body |-> <<>>],
    [terr |-> ErrRead, body |-> <<>>],
    [terr |-> Nil, body |-> <<>>],
    [terr |-> Nil, body |-> <<t>>],
    [terr |-> Nil, body |-> <<t, t + 100>>] }

\* NONCEREGEXP.FindAllSubmatch(content, n): the first n matches
FindAllSubmatch(body, n) == SubSeq(body, 1, Min(n, Len(body)))

getNonce_LastMatch(reply) ==
  IF reply.terr # Nil THEN [nonce |-> 0, err |-> reply.terr]
  ELSE LET matches == FindAllSubmatch(reply.body, Len(reply.body))
       IN IF Len(matches) = 0
          THEN [nonce |-> 0, err |-> ErrNonce]
          ELSE [nonce |-> matches[Len(matches)], err |-> Nil]

\* getNonce on one reply: [nonce, err]
getNonce(reply) ==
  IF reply.terr # Nil THEN [nonce |-> 0, err |-> reply.terr]
  ELSE LET matches == FindAllSubmatch(reply.body, 1)
       IN IF Len(matches) = 0
          THEN [nonce |-> 0, err |-> ErrNonce]
          ELSE [nonce |-> matches[1], err |-> Nil]

\* jar.Cookies(u): the cookies the jar of ctf.httpclient puts on a request
\* for URL u, every one it holds whose path matches
Sent(u) == [k \in CookieKeys |-> IF PathMatch(k, u) THEN jars[ctfJar][k] ELSE 0]

\* Set-Cookie headers the replies of this session have carried
NumSet ==
  Cardinality({ x \in (1..Len(reqs)) \X CookieKeys : reqs[x[1]].setc[x[2]] # Keep })

\* Set-Cookie headers of the reply to the t-th request: for every cookie key
\* the server uses none, a new value (t) or an expired cookie; no reply, no
\* headers
SetCookie(t, responded) ==
  IF responded
  THEN { h \in [CookieKeys -> {Keep, Expire, t}] :
           /\ \A k \in CookieKeys \ srvKeys : h[k] = Keep
           /\ NumSet + Cardinality({k \in CookieKeys : h[k] # Keep}) <= MaxSetCookies }
  ELSE { NoCookies }

\* jar.SetCookies: the cookie stores after the client has stored the headers
\* h of a reply: a new value replaces the one held under the same key, an
\* expired cookie deletes it, the other keys keep theirs
Store(h) ==
  [jars EXCEPT ![ctfJar] =
     [k \in CookieKeys |-> IF h[k] = Keep THEN @[k]
                           ELSE IF h[k] = Expire THEN 0 ELSE h[k]]]

\* ctf.httpclient.Get(path), line 166, as a record of the request log
GetReq(u, r, c) ==
  [m |-> "GET", url |-> u, nonce |-> r.nonce, flag |-> NoFlag, err |-> r.err, st |-> 0,
   jar |-> ctfJar, sent |-> Sent(u), setc |-> c]

\* ctf.httpclient.Do(req), lines 221 and 257, as a record of the request log
PostReq(u, n, f, o, c) ==
  [m |-> "POST", url |-> u, nonce |-> n, flag |-> f,
   err |-> IF o = NetFail THEN ErrNet ELSE Nil, st |-> o,
   jar |-> ctfJar, sent |-> Sent(u), setc |-> c]

\* ---------------------------------------------------------------------
\* configureInstance, lines 231-276, and createFlag, lines 185-229
\* ---------------------------------------------------------------------

\* the error httpclient.Do gives for one round trip, lines 221-224 and
\* 257-260: the status code of the response is not looked at
DoErr(o) == IF o = NetFail THEN ErrNet ELSE Nil

\* the range loop of lines 263-273: where control goes after flag i
AfterFlag(i) == IF i < Len(conf.flags) THEN "flag_nonce" ELSE "setup_close"

\* lines 238-241: nonce, err := ctf.getNonce(endpoint)
ConfGetNonce ==
  /\ pc = "setup_nonce"
  /\ \E reply \in GetReplies(Len(reqs) + 1) :
     \E c \in SetCookie(Len(reqs) + 1, reply.terr # ErrNet) :
       LET r == getNonce(reply)
       IN /\ reqs' = Append(reqs, GetReq(SetupURL, r, c))
          /\ jars' = Store(c)
          /\ nonce' = r.nonce
          /\ content' = reply.body
          /\ IF r.err = Nil
             THEN pc' = "setup_post" /\ ret' = ret
             ELSE pc' = "failed" /\ ret' = Fail(r.err)
  /\ UNCHANGED <<lastOp, opRet, inputVars, cliVars, ctfJar, wfsRet, pollVars, contVars, fsVars, flagIdx>>

\* lines 243-263: the POST to /setup, then the head of the flag loop
ConfPostSetup ==
  /\ pc = "setup_post"
  /\ \E o \in PostOutcomes :
     \E c \in SetCookie(Len(reqs) + 1, o # NetFail) :
       /\ reqs' = Append(reqs, PostReq(SetupURL, nonce, NoFlag, o, c))
       /\ jars' = Store(c)
       /\ content' = <<>>
       /\ IF DoErr(o) = Nil
          THEN /\ pc' = AfterFlag(0)
               /\ flagIdx' = IF 0 < Len(conf.flags) THEN 1 ELSE 0
               /\ ret' = ret
          ELSE /\ pc' = "failed"
               /\ flagIdx' = flagIdx
               /\ ret' = Fail(DoErr(o))
  /\ UNCHANGED <<lastOp, opRet, inputVars, cliVars, ctfJar, wfsRet, pollVars, contVars, fsVars, nonce>>

FlagGetNonce_Cached ==
  /\ pc = "flag_nonce"
  /\ \E reply \in GetReplies(Len(reqs) + 1) :
     \E c \in SetCookie(Len(reqs) + 1, reply.terr # ErrNet) :
       LET r == getNonce(reply)
       IN /\ reqs' = Append(reqs, GetReq(ChalURL, r, c))
          /\ jars' = Store(c)
          /\ nonce' = nonce
          /\ content' = reply.body
          /\ IF r.err = Nil
             THEN pc' = "flag_post" /\ ret' = ret
             ELSE pc' = "failed" /\ ret' = Fail(r.err)
  /\ UNCHANGED <<lastOp, opRet, inputVars, cliVars, ctfJar, wfsRet, pollVars, contVars, fsVars, flagIdx>>

\* lines 188-191 (inside the loop, line 264): nonce of the challenge page
FlagGetNonce ==
  /\ pc = "flag_nonce"
  /\ \E reply \in GetReplies(Len(reqs) + 1) :
     \E c \in SetCookie(Len(reqs) + 1, reply.terr # ErrNet) :
       LET r == getNonce(reply)
       IN /\ reqs' = Append(reqs, GetReq(ChalURL, r, c))
          /\ jars' = Store(c)
          /\ nonce' = r.nonce
          /\ content' = reply.body
          /\ IF r.err = Nil
             THEN pc' = "flag_post" /\ ret' = ret
             ELSE pc' = "failed" /\ ret' = Fail(r.err)
  /\ UNCHANGED <<lastOp, opRet, inputVars, cliVars, ctfJar, wfsRet, pollVars, contVars, fsVars, flagIdx>>

FlagPost_Continue ==
  /\ pc = "flag_post"
  /\ \E o \in PostOutcomes :
     \E c \in SetCookie(Len(reqs) + 1, o # NetFail) :
       /\ reqs' = Append(reqs, PostReq(ChalURL, nonce, conf.flags[flagIdx], o, c))
       /\ jars' = Store(c)
       /\ content' = <<>>
       /\ pc' = AfterFlag(flagIdx)
       /\ flagIdx' = IF flagIdx < Len(conf.flags) THEN flagIdx + 1 ELSE flagIdx
       /\ ret' = ret
  /\ UNCHANGED <<lastOp, opRet, inputVars, cliVars, ctfJar, wfsRet, pollVars, contVars, fsVars, nonce>>

\* lines 193-228 and 264-273: the multipart POST of flag flagIdx, then the
\* next iteration or the return of configureInstance
FlagPost ==
  /\ pc = "flag_post"
  /\ \E o \in PostOutcomes :
     \E c \in SetCookie(Len(reqs) + 1, o # NetFail) :
       /\ reqs' = Append(reqs, PostReq(ChalURL, nonce, conf.flags[flagIdx], o, c))
       /\ jars' = Store(c)
       /\ content' = <<>>
       /\ IF DoErr(o) = Nil
          THEN /\ pc' = AfterFlag(flagIdx)
               /\ flagIdx' = IF flagIdx < Len(conf.flags) THEN flagIdx + 1 ELSE flagIdx
               /\ ret' = ret
          ELSE /\ pc' = "failed"
               /\ flagIdx' = flagIdx
               /\ ret' = Fail(DoErr(o))
  /\ UNCHANGED <<lastOp, opRet, inputVars, cliVars, ctfJar, wfsRet, pollVars, contVars, fsVars, nonce>>

\* ---------------------------------------------------------------------
\* New, continued
\* ---------------------------------------------------------------------

NewSetupClose_IgnoreErr ==
  /\ pc = "setup_close"
  /\ \E ok \in BOOLEAN :
       /\ setupC' = IF ok THEN DockerClose(setupC) ELSE setupC
       /\ pc' = "serving_create"
       /\ ret' = ret
  /\ UNCHANGED <<lastOp, opRet, inputVars, cliVars, jarVars, wfsRet, pollVars, servC, cont, fsVars, httpVars>>

\* lines 114-117: c.Close() on the setup container
NewSetupClose ==
  /\ pc = "setup_close"
  /\ \E ok \in BOOLEAN :
       IF ok
       THEN /\ setupC' = DockerClose(setupC)
            /\ pc' = "serving_create"
            /\ ret' = ret
       ELSE /\ setupC' = setupC
            /\ pc' = "failed"
            /\ ret' = Fail(ErrClose)
  /\ UNCHANGED <<lastOp, opRet, inputVars, cliVars, jarVars, wfsRet, pollVars, servC, cont, fsVars, httpVars>>

NewServing_Started ==
  /\ pc = "serving_create"
  /\ \E ok \in BOOLEAN :
       IF ok
       THEN /\ servC' = DockerStart(DockerNewContainer(FinalConf(BaseConf(confDir, hostIp))))
            /\ cont' = "serving"
            /\ pc' = "returned"
            /\ ret' = [inst |-> TRUE, err |-> Nil]
       ELSE /\ UNCHANGED <<servC, cont>>
            /\ pc' = "failed"
            /\ ret' = Fail(ErrCreate)
  /\ UNCHANGED <<lastOp, opRet, inputVars, cliVars, jarVars, wfsRet, pollVars, setupC, fsVars, httpVars>>

\* lines 119-126: finalConf, docker.NewContainer(finalConf), ctf.cont = c,
\* return ctf, nil
NewServing ==
  /\ pc = "serving_create"
  /\ \E ok \in BOOLEAN :
       IF ok
       THEN /\ servC' = DockerNewContainer(FinalConf(BaseConf(confDir, hostIp)))
            /\ cont' = "serving"
            /\ pc' = "returned"
            /\ ret' = [inst |-> TRUE, err |-> Nil]
       ELSE /\ UNCHANGED <<servC, cont>>
            /\ pc' = "failed"
            /\ ret' = Fail(ErrCreate)
  /\ UNCHANGED <<lastOp, opRet, inputVars, cliVars, jarVars, wfsRet, pollVars, setupC, fsVars, httpVars>>

\* ---------------------------------------------------------------------
\* Start, Stop, Close of the returned instance, lines 130-148
\* ---------------------------------------------------------------------

\* lines 130-132: return ctf.cont.Start()
Start ==
  /\ pc = "returned"
  /\ cont = "serving"
  /\ lastOp' = "Start"
  /\ \E ok \in BOOLEAN :
       IF ok /\ DockerUsable(servC)
       THEN servC' = DockerStart(servC) /\ opRet' = Nil
       ELSE servC' = servC /\ opRet' = ErrStart
  /\ UNCHANGED <<pc, ret, inputVars, cliVars, jarVars, wfsRet, pollVars, setupC, cont, fsVars, httpVars>>

\* lines 146-148: return ctf.cont.Stop()
Stop ==
  /\ pc = "returned"
  /\ cont = "serving"
  /\ lastOp' = "Stop"
  /\ \E ok \in BOOLEAN :
       IF ok /\ DockerUsable(servC)
       THEN servC' = DockerStop(servC) /\ opRet' = Nil
       ELSE servC' = servC /\ opRet' = ErrStop
  /\ UNCHANGED <<pc, ret, inputVars, cliVars, jarVars, wfsRet, pollVars, setupC, cont, fsVars, httpVars>>

CloseRemove_IgnoreErr ==
  /\ pc = "returned"
  /\ cont = "serving"
  /\ lastOp' = "Close"
  /\ \E ok \in BOOLEAN :
       /\ dirExists' = IF ok THEN FALSE ELSE dirExists
       /\ opRet' = Pending
       /\ pc' = "close_cont"
  /\ UNCHANGED <<ret, inputVars, cliVars, jarVars, wfsRet, pollVars, contVars, hostIp, confDir, httpVars>>

\* lines 135-137: os.RemoveAll(ctf.confDir)
CloseRemove ==
  /\ pc = "returned"
  /\ cont = "serving"
  /\ lastOp' = "Close"
  /\ \E ok \in BOOLEAN :
       IF ok
       THEN dirExists' = FALSE /\ opRet' = Pending /\ pc' = "close_cont"
       ELSE dirExists' = dirExists /\ opRet' = ErrRemove /\ pc' = pc
  /\ UNCHANGED <<ret, inputVars, cliVars, jarVars, wfsRet, pollVars, contVars, hostIp, confDir, httpVars>>

\* lines 139-143: ctf.cont.Close()
CloseCont ==
  /\ pc = "close_cont"
  /\ pc' = "returned"
  /\ \E ok \in BOOLEAN :
       IF ok /\ DockerUsable(servC)
       THEN servC' = DockerClose(servC) /\ opRet' = Nil
       ELSE servC' = servC /\ opRet' = ErrClose
  /\ UNCHANGED <<lastOp, ret, inputVars, cliVars, jarVars, wfsRet, pollVars, setupC, cont, fsVars, httpVars>>

\* the steps of one New call
NewNext ==
  \/ NewHostIP
  \/ NewTempDir
  \/ NewSetupCreate
  \/ NewSetupStart
  \/ WfsStart
  \/ PollDeadline
  \/ PollProbe
  \/ PollSleep
  \/ WfsRecv
  \/ ConfGetNonce
  \/ ConfPostSetup
  \/ FlagGetNonce
  \/ FlagPost
  \/ NewSetupClose
  \/ NewServing

Next ==
  \/ NewNext
  \/ Start
  \/ Stop
  \/ CloseRemove
  \/ CloseCont

Spec == Init /\ [][Next]_vars

\* one New call against a server that uses cookies; the session does not
\* depend on what the flags hold, only on how many there are
SessionInit == InitWith(UniformConfigs, CookieKeys)
SessionSpec == SessionInit /\ [][NewNext]_vars

\* the goroutine of waitForServer is scheduled, every http.Get returns and
\* time.Sleep ends; the caller blocked on <-errc is woken when a value is there
FairSpec ==
  /\ Spec
  /\ WF_vars(PollDeadline)
  /\ WF_vars(PollProbe)
  /\ WF_vars(PollSleep)
  /\ WF_vars(WfsRecv)

\* ---------------------------------------------------------------------
\* The event commands of the client, src/app/client/cli/event.go:
\* CmdEventCreate (30-84), CmdEventStop (86-118), CmdEventTeamRestart
\* (181-216). The three Run functions have the same shape.
\* ---------------------------------------------------------------------

Cmds == {"create", "stop", "restart"}

\* context.WithTimeout of each Run function, in seconds
CmdTimeout(cmd) == IF cmd = "stop" THEN 30 ELSE 60

\* errors the RPC layer gives: a failed call, or the context's deadline
RpcErrs == {"rpc error", "context deadline exceeded"}
\* payloads of the messages the daemon streams
Payloads == {"m1", "m2"}

MsgEv(p) == [k |-> "msg", v |-> p]
EofEv == [k |-> "eof", v |-> "EOF"]
ErrEv(e) == [k |-> "err", v |-> e]

\* what one stream.Recv() can return after n messages
RecvEvents(n) ==
  (IF n < MaxMsgs THEN {MsgEv(p) : p \in Payloads} ELSE {})
    \cup {EofEv} \cup {ErrEv(e) : e \in RpcErrs}

CliInit ==
  /\ pc = "hostip"
  /\ lastOp = "New"
  /\ ret = NoRet
  /\ opRet = Pending
  /\ conf = [flags |-> <<>>]
  /\ hostIp = ""
  /\ confDir = ""
  /\ dirExists = FALSE
  /\ setupC = NoCont
  /\ servC = NoCont
  /\ cont = "nil"
  /\ reqs = <<>>
  /\ nonce = 0
  /\ content = <<>>
  /\ flagIdx = 0
  /\ jars = <<>>
  /\ ctfJar = 0
  /\ srvKeys = {}
  /\ wfsRet = Pending
  /\ gpc = "idle"
  /\ errc = <<>>
  /\ elapsed = 0
  /\ probes = 0
  /\ backoffs = 0
  /\ nerrs = 0
  /\ lastProbe = -1
  /\ cliCmd \in Cmds
  /\ cliPc = "open"
  /\ cliStream = "none"
  /\ cliLog = <<>>
  /\ cliOut = <<>>

\* event.go lines 44-59, 92-102, 187-200: the RPC call that opens the stream
CliOpen ==
  /\ cliPc = "open"
  /\ \/ /\ cliStream' = "open"
        /\ cliPc' = "recv"
        /\ cliOut' = cliOut
     \/ \E e \in RpcErrs :
          /\ cliStream' = "failed"
          /\ cliPc' = "done"
          /\ cliOut' = Append(cliOut, e)
  /\ UNCHANGED <<cliCmd, cliLog, ctfdVars>>

CliRecv_NoEofCheck ==
  /\ cliPc = "recv"
  /\ \E ev \in RecvEvents(Len(cliLog)) :
       /\ cliLog' = Append(cliLog, ev)
       /\ IF ev.k = "msg"
          THEN cliPc' = "recv" /\ cliOut' = cliOut
          ELSE cliPc' = "done" /\ cliOut' = Append(cliOut, ev.v)
  /\ UNCHANGED <<cliCmd, cliStream, ctfdVars>>

\* event.go lines 61-71, 104-114, 202-212: one iteration of the receive loop
CliRecv ==
  /\ cliPc = "recv"
  /\ \E ev \in RecvEvents(Len(cliLog)) :
       /\ cliLog' = Append(cliLog, ev)
       /\ IF ev.k = "eof"
          THEN cliPc' = "done" /\ cliOut' = cliOut
          ELSE IF ev.k = "err"
               THEN cliPc' = "done" /\ cliOut' = Append(cliOut, ev.v)
               ELSE cliPc' = "recv" /\ cliOut' = cliOut
  /\ UNCHANGED <<cliCmd, cliStream, ctfdVars>>

CliNext ==
  \/ CliOpen
  \/ CliRecv

CliSpec == CliInit /\ [][CliNext]_vars

TypeOK ==
  /\ pc \in {"hostip", "tempdir", "setup_create", "setup_start", "wfs_start", "wfs_recv",
             "setup_nonce", "setup_post", "flag_nonce", "flag_post", "setup_close",
             "serving_create", "returned", "close_cont", "failed"}
  /\ gpc \in {"idle", "select", "sleep", "done"}
  /\ Len(errc) <= 1
  /\ elapsed \in 0..Deadline
  /\ flagIdx \in 0..Len(conf.flags)

\* ---------------------------------------------------------------------
\* Properties
\* ---------------------------------------------------------------------

Range(f) == { f[i] : i \in DOMAIN f }
DataMount == <<confDir, "/opt/CTFd/CTFd/data">>
\* the caller is still inside New, or New has returned an error
InNew == pc \notin {"returned", "close_cont"}
\* New has just returned the instance and no method has been called on it
JustReturned == pc = "returned" /\ lastOp = "New"
ChalPosts == SelectSeq(reqs, LAMBDA r : r.m = "POST" /\ r.url = ChalURL)
ChalGets == SelectSeq(reqs, LAMBDA r : r.m = "GET" /\ r.url = ChalURL)

\* C1 (as stated): when New returns an instance without error, the serving
\* container is already created and started (alive) at the moment of return.
C1_StartedOnReturn == JustReturned => Alive(servC)

\* C1 (amended): when New returns an instance without error, the setup
\* container is closed and the serving container is created but not started;
\* the serving container is alive only after the caller has called a method
\* of the instance (Start).
C1_CreatedOnReturn ==
  /\ JustReturned =>
       /\ ret = [inst |-> TRUE, err |-> Nil]
       /\ cont = "serving"
       /\ servC.status = "created"
       /\ setupC.status = "closed"
  /\ Alive(servC) => lastOp # "New"

C1_Witness == JustReturned /\ ret.inst /\ servC.status = "created"

\* C2: there is no reachable state in which the data path has been removed
\* while a container of the instance is still alive.
C2_RemovedOnlyAfterClosed ==
  (confDir # "" /\ ~dirExists) => (~Alive(servC) /\ ~Alive(setupC))

\* C3: during New the data directory exists and is bind-mounted in the
\* configuration of the setup container from the moment that container is
\* created; when the host-IP lookup or the directory creation fails, New
\* returns that error and no container exists.
C3_DirBeforeSetup ==
  /\ setupC.status # "none" =>
       /\ confDir = TempDirPath
       /\ DataMount \in Range(setupC.conf.mounts)
  /\ (InNew /\ setupC.status # "none") => dirExists
  /\ ret.err \in {ErrHostIP, ErrTempDir} =>
       /\ pc = "failed"
       /\ ~ret.inst
       /\ setupC = NoCont
       /\ servC = NoCont
       /\ ~dirExists

C3_Witness == pc = "setup_start" /\ setupC.status = "created" /\ dirExists

\* C4: the setup and the serving container are never both alive; the serving
\* container exists only once the setup container has been closed, and when
\* closing the setup container fails no serving container is created.
C4_NeverBothAlive ==
  /\ ~(Alive(setupC) /\ Alive(servC))
  /\ servC.status # "none" => setupC.status = "closed"
  /\ (pc = "failed" /\ ret.err = ErrClose) => (servC = NoCont /\ cont = "nil")

C4_Witness == Alive(servC) /\ setupC.status = "closed"

\* C5: when creating or starting the setup container fails, New returns
\* that error and no readiness probe, nonce fetch, form submission or
\* serving container follows: none of them happens while the setup
\* container has not been started.
C5_SetupFailureAborts ==
  /\ (pc = "failed" /\ ret.err \in {ErrCreate, ErrStart} /\ setupC.status # "closed") =>
       /\ ~ret.inst
       /\ gpc = "idle" /\ probes = 0 /\ wfsRet = Pending
       /\ reqs = <<>>
       /\ servC = NoCont
  /\ setupC.status \in {"none", "created"} =>
       /\ gpc = "idle" /\ probes = 0 /\ wfsRet = Pending
       /\ reqs = <<>>
       /\ servC = NoCont

C5_Witness == pc = "failed" /\ ret.err = ErrStart /\ setupC.status = "created"

\* C6 (as stated): when the poller has finished on a probe that received a
\* 2xx status (200..299) after k transport errors, it reports success with
\* exactly k+1 probes and k backoffs.
C6_Any2xxSucceeds ==
  (gpc = "done" /\ lastProbe \in 200..299) =>
    (errc = <<Nil>> /\ probes = nerrs + 1 /\ backoffs = nerrs)

\* C6 (amended): when the poller has finished on a probe that received
\* status 200 after k transport errors, it reports success with exactly k+1
\* probes and k one-second backoffs.
C6_Status200Succeeds ==
  (gpc = "done" /\ lastProbe = StatusOK) =>
    (errc = <<Nil>> /\ probes = nerrs + 1 /\ backoffs = nerrs /\ nerrs * Backoff <= elapsed)

C6_Witness == gpc = "done" /\ lastProbe = StatusOK /\ nerrs = 3 /\ errc = <<Nil>>

\* C7: a probe that receives a non-2xx response ends the poller at once with
\* an error other than ServerUnavailable: no later probe, no later backoff,
\* and a single probe when it was the first outcome. The same holds of
\* every response whose status is not 200, which covers the non-2xx ones.
C7_Non2xxFatal ==
  (lastProbe \in Statuses /\ lastProbe # 200) =>
    /\ gpc = "done"
    /\ errc = <<ErrStatus>>
    /\ ErrStatus # ServerUnavailableErr
    /\ probes = nerrs + 1
    /\ backoffs = nerrs

C7_Witness == gpc = "done" /\ lastProbe = 500 /\ probes = 1 /\ errc = <<ErrStatus>>

\* C8: the poller reports ServerUnavailable exactly when the deadline has
\* passed and no probe saw a response (every probe was a transport error).
C8_UnavailableIff ==
  gpc = "done" =>
    /\ (errc = <<ServerUnavailableErr>>) <=> (elapsed >= Deadline /\ lastProbe \notin Statuses)
    /\ lastProbe \notin Statuses => errc = <<ServerUnavailableErr>>
    /\ errc = <<ServerUnavailableErr>> => (elapsed >= Deadline /\ probes = nerrs)

C8_Witness == gpc = "done" /\ errc = <<ServerUnavailableErr>> /\ probes > 0

\* C9: the challenge POSTs are the flag definitions of the configuration in
\* order, one each; when configuration has succeeded there is one per
\* definition; when createFlag fails for flag i, nothing was requested for a
\* later flag and New returns that error.
C9_FlagsInOrder ==
  /\ Len(ChalPosts) <= Len(conf.flags)
  /\ \A i \in 1..Len(ChalPosts) : ChalPosts[i].flag = conf.flags[i]
  /\ pc \in {"setup_close", "serving_create", "returned", "close_cont"} =>
       /\ Len(ChalPosts) = Len(conf.flags)
       /\ Len(ChalGets) = Len(conf.flags)
       /\ \A i \in 1..Len(reqs) : reqs[i].err = Nil
  /\ (pc = "failed" /\ flagIdx >= 1 /\ ret.err \in {ErrNet, ErrRead, ErrNonce}) =>
       /\ Len(ChalGets) = flagIdx
       /\ Len(ChalPosts) \in {flagIdx - 1, flagIdx}
       /\ reqs[Len(reqs)].url = ChalURL
       /\ reqs[Len(reqs)].err = ret.err
       /\ \A i \in 1..(Len(reqs) - 1) : reqs[i].err = Nil

C9_Witness ==
  /\ pc = "failed" /\ Len(conf.flags) = 2 /\ flagIdx = 1
  /\ ret.err = ErrNet /\ Len(ChalPosts) = 1

\* C10: a non-2xx response to a form POST is fatal: it is the last request,
\* New has returned an error and no serving container exists.
C10_Non2xxPostFatal ==
  \A i \in 1..Len(reqs) :
    (reqs[i].m = "POST" /\ reqs[i].st \in Statuses /\ reqs[i].st \notin 200..299) =>
      (i = Len(reqs) /\ pc = "failed" /\ ~ret.inst /\ servC = NoCont)


\* C11: every form POST carries the nonce of the GET of the same URL that
\* is the request right before it, and no two POSTs carry the nonce of the
\* same GET.
C11_FreshNonce ==
  /\ \A i \in 1..Len(reqs) :
       reqs[i].m = "POST" =>
         /\ i > 1
         /\ reqs[i - 1].m = "GET"
         /\ reqs[i - 1].url = reqs[i].url
         /\ reqs[i - 1].err = Nil
         /\ reqs[i - 1].nonce = reqs[i].nonce
  /\ \A i, j \in 1..Len(reqs) :
       (i # j /\ reqs[i].m = "POST" /\ reqs[j].m = "POST") => reqs[i].nonce # reqs[j].nonce

C11_Witness ==
  /\ Len(reqs) = 4
  /\ reqs[2].m = "POST" /\ reqs[2].url = SetupURL
  /\ reqs[4].m = "POST" /\ reqs[4].url = ChalURL
  /\ reqs[4].nonce = reqs[3].nonce

\* the errors a failing step of configureInstance returns
ConfigErrs == {ServerUnavailableErr, ErrStatus, ErrNet, ErrRead, ErrNonce}

\* C12: when a step of configureInstance fails, New returns the error and no
\* instance, the setup container is still alive, the data directory still
\* exists and no serving container was created.
C12_NoCleanup ==
  (pc = "failed" /\ ret.err \in ConfigErrs) =>
    /\ ~ret.inst
    /\ Alive(setupC)
    /\ dirExists
    /\ servC = NoCont
    /\ cont = "nil"

C12_Witness ==
  pc = "failed" /\ ret.err = ErrNonce /\ Alive(setupC) /\ dirExists /\ Len(reqs) = 3

\* C13: the setup and the serving configuration agree on image, data mount,
\* host-address variable and bridge networking; the setup configuration
\* binds 8000/tcp and the serving configuration publishes no port.
C13_SharedBase ==
  /\ setupC.status # "none" =>
       setupC.conf.ports = << <<"8000/tcp", "127.0.0.1:8000">> >>
  /\ servC.status # "none" =>
       /\ servC.conf.image = setupC.conf.image
       /\ servC.conf.mounts = setupC.conf.mounts
       /\ servC.conf.env = setupC.conf.env
       /\ servC.conf.bridge = setupC.conf.bridge
       /\ servC.conf.bridge = TRUE
       /\ servC.conf.env = << <<"ADMIN_HOST", hostIp>> >>
       /\ servC.conf.ports = <<>>

C13_Witness == servC.status = "created" /\ setupC.status = "closed" /\ servC.conf.ports = <<>>

\* C16: no session request before waitForServer returned nil; the setup POST
\* comes before every challenge request; requests are issued only while the
\* setup container is alive; the setup container is closed only after the
\* last flag submission; once the serving container exists, no probe and no
\* session request is issued any more.
C16_PipelineOrder ==
  /\ [](/\ reqs # <<>> => wfsRet = Nil
        /\ probes > 0 => reqs = <<>>
        /\ \A i \in 1..Len(reqs) :
             reqs[i].url = ChalURL =>
               (i > 2 /\ reqs[2].m = "POST" /\ reqs[2].url = SetupURL /\ reqs[2].err = Nil)
        /\ setupC.status = "closed" =>
             (Len(ChalPosts) = Len(conf.flags) /\ reqs[Len(reqs)].m = "POST")
        /\ servC.status # "none" => gpc = "idle")
  /\ [][/\ reqs' # reqs => (Alive(setupC) /\ Alive(setupC') /\ servC = NoCont)
        /\ probes' > probes => (Alive(setupC) /\ servC = NoCont)
        /\ servC.status # "none" => (reqs' = reqs /\ probes' = probes)]_vars

C16_Witness ==
  /\ pc = "returned" /\ Len(reqs) = 6 /\ setupC.status = "closed"
  /\ servC.status = "running"


\* the latest request is a page fetch of getNonce whose body was read
PageRead ==
  /\ reqs # <<>>
  /\ reqs[Len(reqs)].m = "GET"
  /\ reqs[Len(reqs)].err \notin {ErrNet, ErrRead}

\* C14: getNonce on a page with no match of the pattern fails with the
\* nonce-not-found error, which New returns; on a page with one or more
\* matches it returns the token of the first match, not of a later one.
C14_FirstMatch ==
  PageRead =>
    /\ Len(content) = 0 =>
         /\ reqs[Len(reqs)].err = ErrNonce
         /\ pc = "failed"
         /\ ret = Fail(ErrNonce)
    /\ Len(content) >= 1 =>
         /\ reqs[Len(reqs)].err = Nil
         /\ reqs[Len(reqs)].nonce = content[1]
         /\ nonce = content[1]
         /\ \A k \in 2..Len(content) : nonce # content[k]
         /\ pc \in {"setup_post", "flag_post"}

C14_Witness == PageRead /\ Len(content) = 2 /\ nonce = content[1] /\ pc = "flag_post"


\* C17: one polling goroutine per waitForServer call; it sends one value on
\* errc, the send finds room in the channel, it probes no more after the
\* send and terminates, and waitForServer returns the value it sent.
C17_OneResult ==
  /\ [](/\ Len(errc) <= ErrcCap
        /\ gpc \in {"select", "sleep"} => (errc = <<>> /\ pc = "wfs_recv")
        /\ gpc = "done" => (Len(errc) = 1 /\ pc = "wfs_recv")
        /\ gpc = "idle" => (errc = <<>> /\ pc # "wfs_recv"))
  /\ [][/\ Len(errc') > Len(errc) =>
             (Len(errc) < ErrcCap /\ Len(errc') = Len(errc) + 1 /\ gpc' = "done")
        /\ (gpc = "idle" /\ gpc' # "idle") => (pc = "wfs_start" /\ pc' = "wfs_recv")
        /\ gpc = "done" => (probes' <= probes /\ backoffs' <= backoffs /\ gpc' \in {"done", "idle"})
        /\ (pc = "wfs_recv" /\ pc' # "wfs_recv") =>
             /\ gpc = "done" /\ gpc' = "idle"
             /\ wfsRet' = errc[1]
             /\ errc' = <<>>
             /\ wfsRet' # Nil => ret' = Fail(errc[1])]_vars

C17_Witness == gpc = "done" /\ Len(errc) = 1 /\ probes = 2 /\ pc = "wfs_recv"

\* C18: under fairness a caller blocked in waitForServer always gets out of
\* it; it leaves only on a value sent by the polling goroutine, and the
\* value is ServerUnavailable only once the deadline has passed.
C18_EventuallyReturns ==
  /\ (pc = "wfs_recv") ~> (pc # "wfs_recv")
  /\ [][(pc = "wfs_recv" /\ pc' # "wfs_recv") =>
          /\ errc # <<>>
          /\ gpc = "done"
          /\ errc[1] = ServerUnavailableErr => elapsed >= Deadline]_vars

C18_Witness ==
  pc = "failed" /\ wfsRet = ServerUnavailableErr /\ ret = Fail(ServerUnavailableErr)

\* C19: Close removes the data path first and closes the container second;
\* when it returns nil the container is closed and the path removed; when
\* the removal fails it returns that error and leaves the container as it
\* was; when closing the container fails it returns that error with the
\* path already removed.
C19_CloseOrder ==
  /\ [](/\ pc = "close_cont" => (lastOp = "Close" /\ ~dirExists)
        /\ (pc = "returned" /\ lastOp = "Close" /\ opRet = Nil) =>
             (servC.status = "closed" /\ ~dirExists)
        /\ (pc = "returned" /\ lastOp = "Close" /\ opRet = ErrClose) => ~dirExists)
  /\ [][/\ (pc = "returned" /\ pc' = "returned" /\ lastOp' = "Close") =>
             (opRet' = ErrRemove /\ servC' = servC /\ dirExists' = dirExists)
        /\ (pc = "returned" /\ pc' = "close_cont") =>
             (~dirExists' /\ servC' = servC)
        /\ (pc = "close_cont" /\ pc' = "returned") =>
             \/ (opRet' = Nil /\ servC'.status = "closed" /\ ~dirExists')
             \/ (opRet' = ErrClose /\ servC' = servC /\ ~dirExists')
        /\ (servC.status # "closed" /\ servC'.status = "closed") => ~dirExists]_vars

C19_Witness ==
  pc = "returned" /\ lastOp = "Close" /\ opRet = Nil /\ servC.status = "closed" /\ ~dirExists


\* the values the cookie stores of earlier instances hold
PriorValues == {PriorCookie(i) : i \in 1..Len(jars)}

\* C15 (as stated): every session request goes through the cookie store New
\* made for this instance: a cookie a reply has set is on every later
\* request; the store is a new, empty one, not the store of an instance
\* made earlier.
C15_CookieOnEveryLater ==
  /\ ctfJar # 0 =>
       /\ ctfJar = Len(jars)
       /\ \A i \in 1..(Len(jars) - 1) : jars[i] = PriorJars(Len(jars) - 1)[i]
       /\ \A k \in CookieKeys : jars[ctfJar][k] \notin PriorValues
  /\ \A j \in 1..Len(reqs) :
       /\ reqs[j].jar = ctfJar
       /\ reqs[j].jar # 0
       /\ \A k \in CookieKeys : reqs[j].sent[k] \notin PriorValues
  /\ reqs # <<>> => reqs[1].sent = NoCookies
  /\ \A i, j \in 1..Len(reqs) : \A k \in CookieKeys :
       (i < j /\ reqs[i].setc[k] > 0) => reqs[j].sent[k] = reqs[i].setc[k]

\* C15 (amended): every session request goes through the cookie store New
\* made for this instance, a new, empty store that no earlier instance
\* uses; each request presents exactly the cookies that store holds for the
\* URL of the request: under every key whose path matches, the value of the
\* latest earlier reply with a header for the key, none when that header
\* expired the cookie or no reply had one, and nothing under the other keys.
C15_OwnCookieStore ==
  /\ ctfJar # 0 =>
       /\ ctfJar = Len(jars)
       /\ \A i \in 1..(Len(jars) - 1) : jars[i] = PriorJars(Len(jars) - 1)[i]
       /\ \A k \in CookieKeys : jars[ctfJar][k] \notin PriorValues
  /\ \A j \in 1..Len(reqs) :
       /\ reqs[j].jar = ctfJar
       /\ reqs[j].jar # 0
       /\ \A k \in CookieKeys :
            LET S == {i \in 1..(j - 1) : reqs[i].setc[k] # 0}
                last == CHOOSE m \in S : \A i \in S : i <= m
                held == IF S = {} \/ reqs[last].setc[k] = -1 THEN 0 ELSE reqs[last].setc[k]
                inScope == k.path = "/" \/ reqs[j].url = ChalURL
            IN /\ reqs[j].sent[k] = IF inScope THEN held ELSE 0
               /\ reqs[j].sent[k] \notin PriorValues

C15_Witness ==
  /\ Len(jars) = 2 /\ ctfJar = 2 /\ Len(reqs) = 3
  /\ reqs[1].setc = [k \in CookieKeys |-> IF k.name = "session" THEN 1 ELSE 0]
  /\ reqs[2].setc = [k \in CookieKeys |-> IF k.name = "prefs" THEN 2 ELSE 0]
  /\ reqs[2].sent = [k \in CookieKeys |-> IF k.name = "session" THEN 1 ELSE 0]
  /\ reqs[3].sent = [k \in CookieKeys |-> IF k.name = "session" THEN 1 ELSE 2]


\* C20: an event command whose stream opened keeps receiving while Recv
\* returns messages; on EOF it ends and prints nothing; on the first other
\* error it prints that error once and stops; when the stream did not open
\* it prints that error once and receives nothing.
C20_StreamLoop ==
  /\ [](/\ Len(cliOut) <= 1
        /\ cliPc = "open" => (cliStream = "none" /\ cliLog = <<>> /\ cliOut = <<>>)
        /\ cliPc = "recv" =>
             /\ cliStream = "open"
             /\ cliOut = <<>>
             /\ \A i \in 1..Len(cliLog) : cliLog[i].k = "msg"
        /\ (cliPc = "done" /\ cliStream = "failed") =>
             (cliLog = <<>> /\ Len(cliOut) = 1 /\ cliOut[1] \in RpcErrs)
        /\ (cliPc = "done" /\ cliStream = "open") =>
             /\ cliLog # <<>>
             /\ \A i \in 1..(Len(cliLog) - 1) : cliLog[i].k = "msg"
             /\ cliLog[Len(cliLog)].k \in {"eof", "err"}
             /\ cliLog[Len(cliLog)].k = "eof" => cliOut = <<>>
             /\ cliLog[Len(cliLog)].k = "err" => cliOut = <<cliLog[Len(cliLog)].v>>)
  /\ [][/\ cliLog' # cliLog => (cliPc = "recv" /\ cliStream = "open")
        /\ cliPc = "done" => (cliLog' = cliLog /\ cliOut' = cliOut)]_vars

C20_Witness ==
  /\ cliPc = "done" /\ cliStream = "open" /\ Len(cliLog) = 3
  /\ cliLog[3].k = "err" /\ cliOut = <<cliLog[3].v>>

====
